---- MODULE Spec2Model ----
(***************************************************************************)
(* Model of examples/plot_marginal_cumulative_incidence_estimation.py:     *)
(* the synthetic competing-risks generator (latent Weibull event times,    *)
(* argmin resolution, uniform right-censoring) and the numerical hazard    *)
(* integration that yields the theoretical cumulative incidence curves.    *)
(*                                                                         *)
(* float64 values are held as scaled integers:                             *)
(*   - times in whole time units (base_scale = 1000 units);                *)
(*   - dimensionless values (ratios, powers, probabilities) in 1/FS;       *)
(*   - rates (hazards, 1/time) in 1/RATE;                                  *)
(*   - integrals cumsum(rate) * dt (dimensionless) in 1/RATE.              *)
(* Every operation rounds its result to a representable value, as a float *)
(* operation does.  The IEEE values inf and nan are the two sentinels Inf  *)
(* and NaN.                                                                *)
(***************************************************************************)
EXTENDS Integers, Sequences, FiniteSets

\* ------------------------------------------------------------------ bounds
\* Subjects per run (the script runs with n_samples = 5_000).
n_samples == 3
\* Points of the coarsest fine integration grid tried; the other one halves
\* its step (the script uses num = 100_000).
NumFine == 5
\* Seeds 0 .. MaxSeed are tried (the script seeds with 0).
MaxSeed == 3
\* Width in bits of the random source's state (PCG64 has 128).
RngBits == 4

\* --------------------------------------------------------- number formats
FS == 10^4
RATE == 10^7
Inf == 2 * 10^9
NaN == 0 - 1

IsFinite(x) == x # Inf /\ x # NaN

Max2(a, b) == IF a >= b THEN a ELSE b

\* float addition: nan is absorbing, inf + finite = inf.
FAdd(a, b) ==
    IF a = NaN \/ b = NaN THEN NaN
    ELSE IF a = Inf \/ b = Inf THEN Inf
    ELSE a + b

\* rate * probability (1/RATE times 1/FS, result in 1/RATE);
\* inf * 0 = nan, inf * positive = inf.
FMul(h, s) ==
    IF h = NaN \/ s = NaN THEN NaN
    ELSE IF h = Inf THEN (IF s = 0 THEN NaN ELSE Inf)
    ELSE (h * s) \div FS

\* integral value: cumulative sum (1/RATE per time) times dt (time units).
FScale(c, step) ==
    IF c = NaN THEN NaN
    ELSE IF c = Inf THEN (IF step = 0 THEN NaN ELSE Inf)
    ELSE c * step

\* r ** p for an integer p >= 0 (r and the result in 1/FS); 0 ** 0 = 1.
RECURSIVE PowFS(_, _)
PowFS(r, p) == IF p = 0 THEN FS ELSE (PowFS(r, p - 1) * r) \div FS

\* The q-th root of x (in 1/FS): the least y with y ** q >= x, by bisection
\* between lo (lo ** q < x) and hi (hi ** q >= x).
RECURSIVE RootSearch(_, _, _, _)
RootSearch(x, q, lo, hi) ==
    IF hi - lo <= 1 THEN hi
    ELSE LET mid == (lo + hi) \div 2
         IN  IF PowFS(mid, q) >= x
             THEN RootSearch(x, q, lo, mid)
             ELSE RootSearch(x, q, mid, hi)

RootFS(x, q) ==
    IF q = 1 \/ x = 0 THEN x
    ELSE RootSearch(x, q, 0, IF x <= FS THEN FS ELSE FS + (x - FS) \div q + 1)

\* r ** (p / q) for integers p, q with q > 0 and p / q > -1, as numpy's float
\* power does: 0 ** 0 = 1, 0 ** negative = inf (a divide-by-zero
\* floating-point flag); a negative power is r ** ((q + p) / q) / r.
FPow(r, p, q) ==
    IF p = 0 THEN FS
    ELSE IF p > 0 THEN RootFS(PowFS(r, p), q)
    ELSE IF r = 0 THEN Inf
    ELSE (RootFS(PowFS(r, q + p), q) * FS) \div r

\* exp(x) for 0 <= x (x and the result in 1/FS): the Taylor series, term k
\* being term (k-1) * x / k.
RECURSIVE ExpSeries(_, _, _)
ExpSeries(x, k, term) ==
    IF term = 0 THEN 0
    ELSE term + ExpSeries(x, k + 1, (term * x) \div (FS * k))

\* np.exp(-x) for x >= 0 (in 1/FS, result in 1/FS): exp(-x) = (1/exp(x/4))^4;
\* exp(-inf) = 0 and anything below 1/FS underflows to 0.
ExpNeg(x) ==
    IF x = NaN THEN NaN
    ELSE IF x = Inf \/ x > 10 * FS THEN 0
    ELSE LET y == ExpSeries(x \div 4, 1, FS)
             u == (FS * FS) \div y
             u2 == (u * u) \div FS
         IN  (u2 * u2) \div FS

\* ------------------------------------------------------ program constants
base_scale == 1000
t_max == 3 * base_scale

\* The script's registry, a registry whose event_ids are not the list
\* positions, and a registry of two causes with equal shapes.  A shape is
\* the pair <<numerator, denominator>>.
Registries ==
    { << [event_id |-> 1, scale |-> 10 * base_scale, shape |-> <<1, 2>>],
         [event_id |-> 2, scale |-> 3 * base_scale, shape |-> <<1, 1>>],
         [event_id |-> 3, scale |-> 2 * base_scale, shape |-> <<5, 1>>] >>,
      << [event_id |-> 2, scale |-> 3 * base_scale, shape |-> <<1, 1>>],
         [event_id |-> 1, scale |-> 10 * base_scale, shape |-> <<1, 2>>] >>,
      << [event_id |-> 1, scale |-> 4 * base_scale, shape |-> <<2, 1>>],
         [event_id |-> 2, scale |-> 5 * base_scale, shape |-> <<3, 2>>] >> }

\* Upper bounds of the uniform censoring: the script's 1.2 * t_max, and a
\* lower one ("lowering the upper bound will increase the censoring rate").
CensorHighs == { (12 * t_max) \div 10, (4 * t_max) \div 10 }

Seeds == 0 .. MaxSeed

\* Resolutions of the fine grid: NumFine points, and the grid of half the step.
GridSizes == { NumFine, 2 * NumFine - 1 }

VARIABLES
    distributions,      \* the registry of the run
    seed,               \* the argument of default_rng
    entropy,            \* what the operating system's entropy pool would give
    high,               \* upper bound of the censoring times
    num,                \* number of points of the fine time grid
    pc,                 \* the statement the run is at
    rng,                \* state of the random source
    draws,              \* the consumers served by rng so far, in order
    columns,            \* the sampled columns, one per cause so far
    event_times,        \* n_samples x K matrix of latent times
    first_event_idx,
    y_uncensored,
    censoring_times,
    y_censored,
    fine_time_grid,
    dt,
    all_hazards,        \* K x NumFine
    fp_reported,        \* floating-point conditions reported, not ignored
    any_event_hazards,
    any_event_survival,
    censoring_fraction,
    theoretical_cif,    \* the curve drawn on each axis so far
    prev                \* what the previous run of the script produced

vars == << distributions, seed, entropy, high, num, pc, rng, draws, columns,
           event_times, first_event_idx, y_uncensored, censoring_times,
           y_censored, fine_time_grid, dt, all_hazards, fp_reported,
           any_event_hazards, any_event_survival, censoring_fraction,
           theoretical_cif, prev >>

\* ------------------------------------------------------- the random source
RngMod == 2^RngBits

\* (mutant) default_rng() without the seed: seeded from the entropy pool.
default_rng_unseeded(s, e) ==
    [state |-> (11 * e + 6) % RngMod, inc |-> (2 * e + 13) % RngMod]

\* default_rng(seed): state and stream increment are derived from the seed
\* alone; the entropy pool is read only when no seed is given.
default_rng(s, e) ==
    [state |-> (11 * s + 6) % RngMod, inc |-> (2 * s + 13) % RngMod]

\* One step of the generator (a permuted congruential generator: a linear
\* congruential state with an odd per-stream increment).
Advance(g) == [g EXCEPT !.state = (5 * g.state + g.inc) % RngMod]

\* The output is narrower than the state (PCG64 returns 64 of its 128 bits):
\* a uniform variate in [0, 1) is the fraction Uniform01(g) / OutMod.
OutMod == RngMod \div 2

Uniform01(g) == g.state \div 2

\* n successive variates: the generator after them and their numerators.
RECURSIVE DrawN(_, _)
DrawN(g, n) ==
    IF n = 0 THEN [rng |-> g, vals |-> << >>]
    ELSE LET g1 == Advance(g)
             rest == DrawN(g1, n - 1)
         IN  [rng |-> rest.rng, vals |-> << Uniform01(g1) >> \o rest.vals]

\* -log1p(-u) for u = k / OutMod (result in 1/FS): the least e with
\* exp(-e) <= 1 - u, by bisection.
RECURSIVE LogSearch(_, _, _)
LogSearch(k, lo, hi) ==
    IF hi - lo <= 1 THEN hi
    ELSE LET mid == (lo + hi) \div 2
         IN  IF ExpNeg(mid) * OutMod <= (OutMod - k) * FS
             THEN LogSearch(k, lo, mid)
             ELSE LogSearch(k, mid, hi)

NegLog1p(k) == IF k = 0 THEN 0 ELSE LogSearch(k, 0, 10 * FS)

\* weibull_min.ppf(u, c, scale=scale) = scale * (-log1p(-u)) ** (1 / c),
\* in time units, with c = shape[1] / shape[2].
weibull_ppf(k, shape, scale) ==
    (scale * FPow(NegLog1p(k), shape[2], shape[1])) \div FS

\* weibull_min.rvs(c, scale=, size=, random_state=rng): inverse-transform
\* sampling of `size` uniform variates of rng.
weibull_rvs(shape, scale, size, g) ==
    LET d == DrawN(g, size)
    IN  [rng |-> d.rng,
         vals |-> [i \in 1 .. size |-> weibull_ppf(d.vals[i], shape, scale)]]

\* rng.uniform(low, high, size): low + (high - low) * u.
rng_uniform(low, hi, size, g) ==
    LET d == DrawN(g, size)
    IN  [rng |-> d.rng,
         vals |-> [i \in 1 .. size |->
                     low + ((hi - low) * d.vals[i]) \div OutMod]]

\* ------------------------------------------------------- array primitives
\* (mutant) the index of the first maximal entry.
argmax_slip(row) ==
    CHOOSE j \in 0 .. Len(row) - 1 :
        /\ \A m \in 1 .. Len(row) : row[j + 1] >= row[m]
        /\ \A m \in 1 .. j : row[m] # row[j + 1]

\* np.argmin over one row: the 0-based index of the first minimal entry.
argmin(row) ==
    CHOOSE j \in 0 .. Len(row) - 1 :
        /\ \A m \in 1 .. Len(row) : row[j + 1] <= row[m]
        /\ \A m \in 1 .. j : row[m] # row[j + 1]

\* np.minimum, elementwise.
np_minimum(a, b) == IF a <= b THEN a ELSE b

\* (mutant) censoring also when the two times are equal.
is_censored_or_tied(c, d) == c <= d

\* The condition of the np.where of the censoring step.
is_censored(c, d) == c < d

\* np.linspace(start, stop, num=n).
linspace(start, stop, n) ==
    [i \in 1 .. n |-> start + ((i - 1) * (stop - start)) \div (n - 1)]

RECURSIVE SumTo(_, _)
SumTo(a, i) == IF i = 0 THEN 0 ELSE FAdd(SumTo(a, i - 1), a[i])

\* (mutant) prefix sums that leave out the current element.
cumsum_exclusive(a) == [i \in 1 .. Len(a) |-> SumTo(a, i - 1)]

\* a.cumsum(): inclusive prefix sums.
cumsum(a) == [i \in 1 .. Len(a) |-> SumTo(a, i)]

\* all_hazards.sum(axis=0): the pointwise sum over the causes.
RECURSIVE SumAxis0(_, _, _)
SumAxis0(rows, k, j) ==
    IF k = 0 THEN 0 ELSE FAdd(SumAxis0(rows, k - 1, j), rows[k][j])

\* ------------------------------------------------------------ the hazard
\* (shape / scale) * (t / scale) ** (shape - 1.0), in 1/RATE.
hazard_formula(t, shape, scale) ==
    LET pw == FPow((t * FS) \div scale, shape[1] - shape[2], shape[2])
    IN  IF pw = Inf THEN Inf
        ELSE (shape[1] * pw * (RATE \div FS)) \div (shape[2] * scale)

\* The floating-point conditions the formula signals at t.
hazard_flags(t, shape, scale) ==
    IF t = 0 /\ shape[1] < shape[2] THEN {"divide"} ELSE {}

\* (mutant) the formula without the override at t == 0.
weibull_hazard_unguarded(t, shape, scale) == hazard_formula(t, shape, scale)

\* weibull_hazard at one grid point: np.where(t == 0, 0.0, formula).
weibull_hazard(t, shape, scale) ==
    IF t = 0 THEN 0 ELSE hazard_formula(t, shape, scale)

\* (mutant) no errstate block: every condition is reported.
errstate_missing(flags) == flags

\* np.errstate(divide="ignore"): the conditions still reported.
errstate(flags) == flags \ {"divide"}

\* np.exp(-(c * dt)) for a cumulative sum c in 1/RATE: a probability in 1/FS.
survival_at(c, step) ==
    LET x == FScale(c, step)
    IN  IF IsFinite(x) THEN ExpNeg(x \div (RATE \div FS)) ELSE ExpNeg(x)

\* (mutant) a grid that ends at the censoring bound.
FineTimeGridToCensoringBound == linspace(0, high, num)

\* The fine grid of plot_cumulative_incidence_functions.
FineTimeGrid == linspace(0, t_max, num)

\* ------------------------------------------------------- the statements
\* (mutant) the censoring times drawn before the latent event times.
ProgramOrderCensoringFirst ==
    << "draw_censoring", "sample", "resolve", "censor", "grid", "hazards",
       "survival", "fraction", "cif", "done" >>

\* The statements of the script, in the order it executes them.
ProgramOrder ==
    << "sample", "resolve", "draw_censoring", "censor", "grid", "hazards",
       "survival", "fraction", "cif", "done" >>

Pos(label) == CHOOSE i \in 1 .. Len(ProgramOrder) : ProgramOrder[i] = label

Following(label) == ProgramOrder[Pos(label) + 1]

\* The statement `label` has been executed in this run.
Ran(label) == Pos(pc) > Pos(label)

K == Len(distributions)

NoRun ==
    [ran |-> FALSE, seed |-> 0, entropy |-> 0, high |-> 0, num |-> 0,
     event_times |-> << >>, y_uncensored |-> << >>, y_censored |-> << >>,
     censoring_fraction |-> 0, fine_time_grid |-> << >>, dt |-> 0,
     all_hazards |-> << >>,
     any_event_survival |-> << >>, theoretical_cif |-> << >>]

Init ==
    /\ distributions \in Registries
    /\ seed \in Seeds
    /\ entropy \in {0, 1}
    /\ high \in CensorHighs
    /\ num \in GridSizes
    /\ pc = ProgramOrder[1]
    /\ rng = default_rng(seed, entropy)
    /\ draws = << >>
    /\ columns = << >>
    /\ event_times = << >>
    /\ first_event_idx = << >>
    /\ y_uncensored = << >>
    /\ censoring_times = << >>
    /\ y_censored = << >>
    /\ fine_time_grid = << >>
    /\ dt = 0
    /\ all_hazards = << >>
    /\ fp_reported = {}
    /\ any_event_hazards = << >>
    /\ any_event_survival = << >>
    /\ censoring_fraction = 0
    /\ theoretical_cif = << >>
    /\ prev = NoRun

\* One iteration of the list comprehension over distributions: the column
\* of n_samples latent times of the next cause.
SampleCause ==
    /\ pc = "sample"
    /\ LET k == Len(columns) + 1
           r == weibull_rvs(distributions[k].shape, distributions[k].scale,
                            n_samples, rng)
       IN  /\ columns' = Append(columns, r.vals)
           /\ rng' = r.rng
           /\ draws' = draws \o [i \in 1 .. n_samples |-> << k, i >>]
           /\ pc' = IF k = K THEN Following("sample") ELSE pc
    /\ UNCHANGED << distributions, seed, entropy, high, num, event_times,
                    first_event_idx, y_uncensored, censoring_times,
                    y_censored, fine_time_grid, dt, all_hazards, fp_reported,
                    any_event_hazards, any_event_survival,
                    censoring_fraction, theoretical_cif, prev >>

\* np.concatenate(axis=1), np.argmin(axis=1) and the y_uncensored frame.
ResolveEvents ==
    /\ pc = "resolve"
    /\ LET m == [i \in 1 .. n_samples |-> [k \in 1 .. K |-> columns[k][i]]]
           idx == [i \in 1 .. n_samples |-> argmin(m[i])]
       IN  /\ event_times' = m
           /\ first_event_idx' = idx
           /\ y_uncensored' =
                [event |-> [i \in 1 .. n_samples |-> idx[i] + 1],
                 duration |-> [i \in 1 .. n_samples |-> m[i][idx[i] + 1]]]
    /\ pc' = Following("resolve")
    /\ UNCHANGED << distributions, seed, entropy, high, num, rng, draws, columns,
                    censoring_times, y_censored, fine_time_grid, dt,
                    all_hazards, fp_reported, any_event_hazards,
                    any_event_survival, censoring_fraction, theoretical_cif,
                    prev >>

\* censoring_times = rng.uniform(low=0.0, high=..., size=n_samples).
DrawCensoring ==
    /\ pc = "draw_censoring"
    /\ LET r == rng_uniform(0, high, n_samples, rng)
       IN  /\ censoring_times' = r.vals
           /\ rng' = r.rng
           /\ draws' = draws \o [i \in 1 .. n_samples |-> << 0, i >>]
    /\ pc' = Following("draw_censoring")
    /\ UNCHANGED << distributions, seed, entropy, high, num, columns, event_times,
                    first_event_idx, y_uncensored, y_censored,
                    fine_time_grid, dt, all_hazards, fp_reported,
                    any_event_hazards, any_event_survival,
                    censoring_fraction, theoretical_cif, prev >>

\* The y_censored frame: np.where(censoring_times < duration, 0, event) and
\* np.minimum(censoring_times, duration).
Censor ==
    /\ pc = "censor"
    /\ y_censored' =
         [event |-> [i \in 1 .. n_samples |->
                       IF is_censored(censoring_times[i],
                                      y_uncensored.duration[i])
                       THEN 0 ELSE y_uncensored.event[i]],
          duration |-> [i \in 1 .. n_samples |->
                          np_minimum(censoring_times[i],
                                     y_uncensored.duration[i])]]
    /\ pc' = Following("censor")
    /\ UNCHANGED << distributions, seed, entropy, high, num, rng, draws, columns,
                    event_times, first_event_idx, y_uncensored,
                    censoring_times, fine_time_grid, dt, all_hazards,
                    fp_reported, any_event_hazards, any_event_survival,
                    censoring_fraction, theoretical_cif, prev >>

\* fine_time_grid = np.linspace(0, t_max, num=...); dt = np.diff(...)[0].
BuildGrid ==
    /\ pc = "grid"
    /\ fine_time_grid' = FineTimeGrid
    /\ dt' = fine_time_grid'[2] - fine_time_grid'[1]
    /\ pc' = Following("grid")
    /\ UNCHANGED << distributions, seed, entropy, high, num, rng, draws, columns,
                    event_times, first_event_idx, y_uncensored,
                    censoring_times, y_censored, all_hazards, fp_reported,
                    any_event_hazards, any_event_survival,
                    censoring_fraction, theoretical_cif, prev >>

\* all_hazards = np.stack([weibull_hazard(fine_time_grid, **dist) ...]).
EvalHazards ==
    /\ pc = "hazards"
    /\ all_hazards' =
         [k \in 1 .. K |->
            [j \in 1 .. Len(fine_time_grid) |->
               weibull_hazard(fine_time_grid[j], distributions[k].shape,
                              distributions[k].scale)]]
    /\ fp_reported' =
         UNION { errstate(hazard_flags(fine_time_grid[j],
                                       distributions[k].shape,
                                       distributions[k].scale)) :
                 k \in 1 .. K, j \in 1 .. Len(fine_time_grid) }
    /\ pc' = Following("hazards")
    /\ UNCHANGED << distributions, seed, entropy, high, num, rng, draws, columns,
                    event_times, first_event_idx, y_uncensored,
                    censoring_times, y_censored, fine_time_grid, dt,
                    any_event_hazards, any_event_survival,
                    censoring_fraction, theoretical_cif, prev >>

\* any_event_hazards = all_hazards.sum(axis=0);
\* any_event_survival = np.exp(-(any_event_hazards.cumsum(axis=-1) * dt)).
IntegrateSurvival ==
    /\ pc = "survival"
    /\ any_event_hazards' =
         [j \in 1 .. Len(fine_time_grid) |-> SumAxis0(all_hazards, K, j)]
    /\ any_event_survival' =
         LET c == cumsum(any_event_hazards')
         IN  [j \in 1 .. Len(fine_time_grid) |-> survival_at(c[j], dt)]
    /\ pc' = Following("survival")
    /\ UNCHANGED << distributions, seed, entropy, high, num, rng, draws, columns,
                    event_times, first_event_idx, y_uncensored,
                    censoring_times, y_censored, fine_time_grid, dt,
                    all_hazards, fp_reported, censoring_fraction,
                    theoretical_cif, prev >>

\* censoring_fraction = (y_censored["event"] == 0).mean(), in 1/FS.
CensoringFraction ==
    /\ pc = "fraction"
    /\ censoring_fraction' =
         (Cardinality({i \in 1 .. n_samples : y_censored.event[i] = 0}) * FS)
             \div n_samples
    /\ pc' = Following("fraction")
    /\ UNCHANGED << distributions, seed, entropy, high, num, rng, draws, columns,
                    event_times, first_event_idx, y_uncensored,
                    censoring_times, y_censored, fine_time_grid, dt,
                    all_hazards, fp_reported, any_event_hazards,
                    any_event_survival, theoretical_cif, prev >>

\* (mutant) the hazard integrated without the survival weight.
cif_curve_unweighted(hazards_i, survival, step) ==
    LET c == cumsum(hazards_i)
    IN  [j \in 1 .. Len(hazards_i) |-> FScale(c[j], step)]

\* theoretical_cif = (hazards_i * any_event_survival).cumsum(axis=-1) * dt
\* for one curve (in 1/RATE).
cif_curve(hazards_i, survival, step) ==
    LET c == cumsum([j \in 1 .. Len(hazards_i) |->
                       FMul(hazards_i[j], survival[j])])
    IN  [j \in 1 .. Len(hazards_i) |-> FScale(c[j], step)]

\* One iteration of the loop over enumerate(zip(axes, all_hazards), 1): the
\* theoretical curve drawn on the axis of event_id.
TheoreticalCif ==
    /\ pc = "cif"
    /\ LET event_id == Len(theoretical_cif) + 1
       IN  /\ theoretical_cif' =
                Append(theoretical_cif,
                       cif_curve(all_hazards[event_id], any_event_survival,
                                 dt))
           /\ pc' = IF event_id = K THEN Following("cif") ELSE pc
    /\ UNCHANGED << distributions, seed, entropy, high, num, rng, draws, columns,
                    event_times, first_event_idx, y_uncensored,
                    censoring_times, y_censored, fine_time_grid, dt,
                    all_hazards, fp_reported, any_event_hazards,
                    any_event_survival, censoring_fraction, prev >>

\* The outputs of a finished run.
Outputs ==
    [ran |-> TRUE, seed |-> seed, entropy |-> entropy, high |-> high,
     num |-> num, event_times |-> event_times,
     y_uncensored |-> y_uncensored, y_censored |-> y_censored,
     censoring_fraction |-> censoring_fraction,
     fine_time_grid |-> fine_time_grid, dt |-> dt,
     all_hazards |-> all_hazards,
     any_event_survival |-> any_event_survival,
     theoretical_cif |-> theoretical_cif]

\* The script is run a second time, in a fresh process, on the same registry:
\* with any seed, censoring bound and grid resolution, the entropy pool being whatever it
\* is by then.  The first run's outputs are kept for comparison.
Rerun ==
    /\ pc = "done"
    /\ ~prev.ran
    /\ prev' = Outputs
    /\ seed' \in Seeds
    /\ entropy' \in {0, 1}
    /\ high' \in CensorHighs
    /\ num' \in GridSizes
    /\ pc' = ProgramOrder[1]
    /\ rng' = default_rng(seed', entropy')
    /\ draws' = << >>
    /\ columns' = << >>
    /\ event_times' = << >>
    /\ first_event_idx' = << >>
    /\ y_uncensored' = << >>
    /\ censoring_times' = << >>
    /\ y_censored' = << >>
    /\ fine_time_grid' = << >>
    /\ dt' = 0
    /\ all_hazards' = << >>
    /\ fp_reported' = {}
    /\ any_event_hazards' = << >>
    /\ any_event_survival' = << >>
    /\ censoring_fraction' = 0
    /\ theoretical_cif' = << >>
    /\ UNCHANGED distributions

Next ==
    \/ SampleCause
    \/ ResolveEvents
    \/ DrawCensoring
    \/ Censor
    \/ BuildGrid
    \/ EvalHazards
    \/ IntegrateSurvival
    \/ CensoringFraction
    \/ TheoreticalCif
    \/ Rerun

Spec == Init /\ [][Next]_vars

\* ================================================================ claims
Subjects == 1 .. n_samples

\* C1: after the censoring step every observed record has
\* duration = min(true event time, censoring time); its event is 0 exactly
\* when the censoring time is strictly smaller than the true event time, and
\* otherwise (also when the two times are equal) it keeps the cause label.
C1_CensoringInvariant ==
    Ran("censor") =>
        \A i \in Subjects :
            LET t == y_uncensored.duration[i]
                c == censoring_times[i]
                d == y_censored.duration[i]
            IN  /\ d <= t /\ d <= c /\ d \in {t, c}
                /\ (y_censored.event[i] = 0) <=> (c < t)
                /\ c >= t => y_censored.event[i] = y_uncensored.event[i]
                /\ y_uncensored.event[i] # 0

\* A run in which one subject is censored and another subject's censoring
\* time equals its true event time, that subject keeping its cause label.
C1_Witness ==
    /\ Ran("censor")
    /\ \E i \in Subjects :
          /\ censoring_times[i] < y_uncensored.duration[i]
          /\ y_censored.event[i] = 0
    /\ \E i \in Subjects :
          /\ censoring_times[i] = y_uncensored.duration[i]
          /\ y_censored.event[i] = y_uncensored.event[i]

\* C2: for every subject the resolved cause is the index of a minimal entry
\* of its row of the n_samples x K latent matrix, the true event time is
\* that minimal value, and it is at most every latent time of the row.
C2_AssignmentCorrect ==
    Ran("resolve") =>
        /\ Len(event_times) = n_samples
        /\ \A i \in Subjects :
              /\ Len(event_times[i]) = K
              /\ \A k \in 1 .. K : event_times[i][k] = columns[k][i]
              /\ first_event_idx[i] \in 0 .. K - 1
              /\ y_uncensored.event[i] = first_event_idx[i] + 1
              /\ y_uncensored.duration[i]
                     = event_times[i][first_event_idx[i] + 1]
              /\ \A k \in 1 .. K :
                     y_uncensored.duration[i] <= event_times[i][k]

\* A run of three causes in which the first, the second and the third
\* latent time are each minimal for some subject.
C2_Witness ==
    /\ Ran("resolve")
    /\ K = 3
    /\ \A k \in 0 .. 2 : \E i \in Subjects :
          /\ first_event_idx[i] = k
          /\ \A m \in 1 .. K :
                m # k + 1 => event_times[i][m] > event_times[i][k + 1]

\* C3: the event label of every uncensored record is the event_id of the
\* cause whose latent time is minimal, and every label is 0 or an event_id
\* of the registry.
C3_LabelIsEventId ==
    Ran("censor") =>
        \A i \in Subjects :
            /\ y_censored.event[i] # 0 =>
                   y_censored.event[i]
                       = distributions[first_event_idx[i] + 1].event_id
            /\ y_censored.event[i]
                   \in {0} \cup {distributions[k].event_id : k \in 1 .. K}

\* The order in which the script asks rng for variates: the n_samples latent
\* times of cause 1, then those of cause 2, ..., then the n_samples
\* censoring times (consumer 0).
ExpectedDraws ==
    [p \in 1 .. n_samples * (K + 1) |->
        IF p <= n_samples * K
        THEN << ((p - 1) \div n_samples) + 1, ((p - 1) % n_samples) + 1 >>
        ELSE << 0, p - n_samples * K >>]

\* C9: every variate comes from the one seeded source, in the fixed order
\* cause 1, cause 2, ..., censoring; no censoring draw precedes a sampler
\* draw, and the source has advanced by exactly the draws listed.
C9_DrawOrder ==
    /\ Len(draws) <= Len(ExpectedDraws)
    /\ \A p \in 1 .. Len(draws) : draws[p] = ExpectedDraws[p]
    /\ rng = DrawN(default_rng(seed, entropy), Len(draws)).rng
    /\ Ran("draw_censoring") => draws = ExpectedDraws

\* A finished run of three causes: all sampler and censoring draws made.
C9_Witness ==
    /\ pc = "done"
    /\ K = 3
    /\ Len(draws) = n_samples * 4
    /\ draws[n_samples * 3] = << 3, n_samples >>
    /\ draws[n_samples * 3 + 1] = << 0, 1 >>

GridIdx == 1 .. Len(fine_time_grid)

\* C6: weibull_hazard is exactly 0 at t = 0 for every cause, whatever its
\* shape and scale, is the Weibull formula at every other grid point, is
\* finite everywhere, and reports no floating-point condition.
C6_HazardAtZero ==
    Ran("hazards") =>
        /\ fp_reported = {}
        /\ \A k \in 1 .. K : \A j \in GridIdx :
              /\ IsFinite(all_hazards[k][j])
              /\ fine_time_grid[j] = 0 => all_hazards[k][j] = 0
              /\ fine_time_grid[j] # 0 =>
                     all_hazards[k][j]
                         = hazard_formula(fine_time_grid[j],
                                          distributions[k].shape,
                                          distributions[k].scale)

\* Hazards evaluated for causes of shape below, equal to and above 1, the
\* formula being singular at the grid point t = 0 for the first of them.
C6_Witness ==
    /\ Ran("hazards")
    /\ fine_time_grid[1] = 0
    /\ \E k \in 1 .. K :
          /\ distributions[k].shape[1] < distributions[k].shape[2]
          /\ hazard_formula(0, distributions[k].shape, distributions[k].scale)
                 = Inf
          /\ all_hazards[k][1] = 0
          /\ all_hazards[k][2] > 0
    /\ \E k \in 1 .. K : /\ distributions[k].shape[1] = distributions[k].shape[2]
                         /\ all_hazards[k][1] = 0
    /\ \E k \in 1 .. K : /\ distributions[k].shape[1] > distributions[k].shape[2]
                         /\ all_hazards[k][1] = 0

\* C5: on the grid the survival curve starts at exactly 1 and never
\* increases; every cause's incidence curve starts at exactly 0 and never
\* decreases.
C5_Monotone ==
    /\ Ran("survival") =>
          /\ any_event_survival[1] = FS
          /\ \A j \in GridIdx :
                j > 1 => any_event_survival[j] <= any_event_survival[j - 1]
    /\ Ran("fraction") =>
          \A e \in 1 .. Len(theoretical_cif) :
              /\ theoretical_cif[e][1] = 0
              /\ \A j \in GridIdx :
                    j > 1 => theoretical_cif[e][j] >= theoretical_cif[e][j - 1]

\* A finished run whose survival curve falls and whose incidence curves
\* all rise.
C5_Witness ==
    /\ pc = "done"
    /\ any_event_survival[num] < any_event_survival[2]
    /\ any_event_survival[2] < any_event_survival[1]
    /\ \A e \in 1 .. K : theoretical_cif[e][num] > theoretical_cif[e][2]

\* The all-cause hazard summed over the grid indices 1 .. n.
RECURSIVE HazardSum(_)
HazardSum(n) ==
    IF n = 0 THEN 0
    ELSE LET RECURSIVE OverCauses(_)
             OverCauses(k) ==
                 IF k = 0 THEN 0 ELSE OverCauses(k - 1) + all_hazards[k][n]
         IN  HazardSum(n - 1) + OverCauses(K)

\* C10 as stated: the survival at grid index j is exp(-dt * the all-cause
\* hazard summed over the grid points before j), a left Riemann sum.
C10_LeftRiemann ==
    Ran("survival") =>
        \A j \in GridIdx :
            /\ any_event_hazards[j] = HazardSum(j) - HazardSum(j - 1)
            /\ any_event_survival[j] = survival_at(HazardSum(j - 1), dt)

\* C10 amended: the all-cause hazard is the pointwise sum of the per-cause
\* hazards, and the survival at grid index j is exp(-dt * the all-cause
\* hazard summed over the grid points up to and including j).
C10_InclusiveSum ==
    Ran("survival") =>
        \A j \in GridIdx :
            /\ any_event_hazards[j] = HazardSum(j) - HazardSum(j - 1)
            /\ any_event_survival[j] = survival_at(HazardSum(j), dt)

\* A survival curve on which the two sums give different values.
C10_Witness ==
    /\ Ran("survival")
    /\ \E j \in GridIdx :
          /\ any_event_hazards[j] > 0
          /\ any_event_survival[j] = survival_at(HazardSum(j), dt)
          /\ any_event_survival[j] # survival_at(HazardSum(j - 1), dt)

\* The sum over the causes of the incidence curves `cifs` at grid index j.
RECURSIVE CifSum(_, _, _)
CifSum(cifs, k, j) == IF k = 0 THEN 0 ELSE CifSum(cifs, k - 1, j) + cifs[k][j]

\* 1 - (sum of the incidence curves + survival) at grid index j, in 1/RATE.
Deviation(cifs, survival, j) ==
    RATE - (CifSum(cifs, Len(cifs), j) + survival[j] * (RATE \div FS))

RECURSIVE MaxOver(_, _)
MaxOver(a, n) == IF n = 0 THEN 0 ELSE Max2(MaxOver(a, n - 1), a[n])

\* The largest deviation over the grid.
MaxDeviation(cifs, survival) ==
    MaxOver([j \in 1 .. Len(survival) |-> Deviation(cifs, survival, j)],
            Len(survival))

\* The discretisation tolerance of a grid of step dt: dt times the largest
\* all-cause hazard on the grid (in 1/RATE).
Tolerance == dt * MaxOver(any_event_hazards, Len(any_event_hazards))

\* C4: at every point of the fine grid the incidence curves and the
\* survival curve sum to 1 within the tolerance of the grid: the sum never
\* exceeds 1 and falls short of it by at most dt times the largest all-cause
\* hazard; at t = 0 it is exactly 1; and on the grid of half the step the
\* largest shortfall is no larger than on the coarser grid.
C4_CompetingRisksIdentity ==
    pc = "done" =>
        /\ \A j \in GridIdx :
              /\ Deviation(theoretical_cif, any_event_survival, j) >= 0
              /\ Deviation(theoretical_cif, any_event_survival, j)
                     <= Tolerance
        /\ Deviation(theoretical_cif, any_event_survival, 1) = 0
        /\ (prev.ran /\ prev.dt > dt) =>
              MaxDeviation(theoretical_cif, any_event_survival)
                  <= MaxDeviation(prev.theoretical_cif,
                                  prev.any_event_survival)

\* A finished run on the finer grid, after a run on the coarser one, whose
\* tolerance is below a quarter and whose shortfall is positive and smaller
\* than the coarser grid's.
C4_Witness ==
    /\ pc = "done"
    /\ prev.ran
    /\ prev.dt > dt
    /\ 4 * Tolerance < RATE
    /\ MaxDeviation(theoretical_cif, any_event_survival) > 0
    /\ MaxDeviation(theoretical_cif, any_event_survival)
           < MaxDeviation(prev.theoretical_cif, prev.any_event_survival)

\* C7: two runs with the same seed (and the same censoring bound and grid
\* resolution, on the same registry and sample count) produce the same
\* latent matrix, the same observed records and the same theoretical curves.
C7_Reproducible ==
    (/\ pc = "done"
     /\ prev.ran
     /\ prev.seed = seed
     /\ prev.high = high
     /\ prev.num = num) =>
        /\ prev.event_times = event_times
        /\ prev.y_uncensored = y_uncensored
        /\ prev.y_censored = y_censored
        /\ prev.censoring_fraction = censoring_fraction
        /\ prev.all_hazards = all_hazards
        /\ prev.any_event_survival = any_event_survival
        /\ prev.theoretical_cif = theoretical_cif

\* Two finished runs with the same seed, started with different contents
\* of the entropy pool.
C7_Witness ==
    /\ pc = "done"
    /\ prev.ran
    /\ prev.seed = seed
    /\ prev.high = high
    /\ prev.num = num
    /\ prev.entropy # entropy
    /\ prev.event_times = event_times
    /\ Len(event_times) = n_samples

\* C8: the hazard, survival and incidence curves do not depend on the
\* censoring step: two runs on the same grid give the same curves whatever
\* their censoring bounds and censoring draws.
C8_CurvesIgnoreCensoring ==
    (/\ pc = "done"
     /\ prev.ran
     /\ prev.num = num) =>
        /\ prev.fine_time_grid = fine_time_grid
        /\ prev.all_hazards = all_hazards
        /\ prev.any_event_survival = any_event_survival
        /\ prev.theoretical_cif = theoretical_cif

\* Two finished runs with different censoring bounds, different observed
\* records and different censoring fractions, and the same curves.
C8_Witness ==
    /\ pc = "done"
    /\ prev.ran
    /\ prev.num = num
    /\ prev.high # high
    /\ prev.y_censored # y_censored
    /\ prev.censoring_fraction # censoring_fraction
    /\ prev.theoretical_cif = theoretical_cif
    /\ Len(theoretical_cif) = K

====
